---- MODULE Spec2Model ----
(***************************************************************************)
(* A model of app.py: the Flask dashboard that proxies the room-list, room *)
(* detail and chat-roster endpoints and keeps its data in flat JSON files. *)
(*                                                                         *)
(* Text the program inspects character by character (roster lines, gender  *)
(* and country codes, tags) is a sequence of one-character strings; text   *)
(* it only passes on (usernames, error texts) is a TLA+ string.            *)
(* time.time() is an integer number of seconds.                            *)
(***************************************************************************)
EXTENDS Integers, Sequences, FiniteSets, TLC

VARIABLES
    now,         \* the wall clock read by time.time()
    cacheFile,   \* data/room_cache.json
    favFile,     \* data/favorites.json
    rosterText,  \* the text the upstream chat-roster endpoint answers with
    resp,        \* the response of the request handled last, NoResp when none
    millis,      \* the milliseconds of the wall clock past the second now
    notesFile,   \* data/notes.json
    prefsFile,   \* data/preferences.json
    clipsFile,   \* data/clips.json
    disk,        \* the condition of the data directory for writing
    inflight,    \* the requests on their way or being handled concurrently
    client       \* the script of the page in the browser: its variables

vars == <<now, cacheFile, favFile, rosterText, resp,
          millis, notesFile, prefsFile, clipsFile, disk, inflight, client>>

\* What the handlers of the room list, the room details and the favorites
\* leave alone.
storeVars == <<millis, notesFile, prefsFile, clipsFile, disk, inflight, client>>

(***************************************************************************)
(* Bounds of the model.                                                    *)
(***************************************************************************)
TickLen  == 30    \* seconds the clock advances in one Tick
MaxTime  == 120   \* the clock stops advancing past this
MaxRooms == 2     \* rooms in one upstream room-list answer
MaxRaw   == 6     \* characters in a roster line (SpecRoster)
MaxCode  == 2     \* characters in a gender code of a roster record (SpecRosterGender)
MaxClips == 2     \* clips in data/clips.json
MaxMillis == 1    \* the millisecond clock stops advancing past this
MaxCountry == 3   \* characters in the country of a room (SpecFlag)
MaxSeconds == 3661 \* seconds of uptime of a room (SpecDuration)
MaxStart == 3     \* the latest second a room starts or is rendered at (SpecUptime)
MaxRecords == 2   \* elements after the count in a roster line (SpecRosterCount)
MaxCountdown == 3 \* seconds of a recording, 30 in the script (SpecRecording)
MaxOverrun == 1   \* seconds the countdown is followed below zero (SpecRecording)
MaxRecordings == 2 \* recordings started on one page (SpecRecording)

(***************************************************************************)
(* Program constants.                                                      *)
(***************************************************************************)
CACHE_TTL     == 60    \* 'expires': time.time() + 60
NEW_THRESHOLD == 900   \* room['uptime'] < 900

(***************************************************************************)
(* Small helpers on sequences.                                             *)
(***************************************************************************)
Range(s) == {s[i] : i \in 1..Len(s)}

RECURSIVE SeqSum(_)
SeqSum(s) == IF s = <<>> THEN 0 ELSE Head(s) + SeqSum(Tail(s))

(***************************************************************************)
(* Files.  A data file is missing, holds text json.load rejects, or holds  *)
(* a JSON document.                                                        *)
(***************************************************************************)
Missing      == [kind |-> "missing", doc |-> <<>>]
Corrupt      == [kind |-> "corrupt", doc |-> <<>>]
JsonFile(d)  == [kind |-> "json", doc |-> d]

\* Mutant: an empty document read as no document (json.load(f) or default).
load_data_or_default(file, default) ==
    IF file.kind = "json" /\ file.doc # <<>> THEN file.doc ELSE default

\* load_data: the document when the file exists and parses, else the default.
load_data(file, default) ==
    IF file.kind = "json" THEN file.doc ELSE default

\* save_data: the file now holds exactly the document.
save_data(data) == JsonFile(data)

(***************************************************************************)
(* The cache document: {} or {'rooms': ..., 'expires': ...}.               *)
(***************************************************************************)
EmptyDict == [nonempty |-> FALSE, rooms |-> <<>>, expires |-> 0]
Envelope(rooms, expires) == [nonempty |-> TRUE, rooms |-> rooms, expires |-> expires]

\* Mutant: the emptiness test of the expiry test turned round.
CacheFreshOrEmpty(cache, t) == ~cache.nonempty \/ cache.expires > t

\* Mutant: the comparison of the expiry test turned round.
CacheFreshInverted(cache, t) == cache.nonempty /\ cache.expires < t

\* cache and cache.get('expires', 0) > time.time()
CacheFresh(cache, t) == cache.nonempty /\ cache.expires > t

(***************************************************************************)
(* Characters.  str.upper, str.lower and ord on the characters the model   *)
(* uses: ASCII letters and digits; every other character is its own upper  *)
(* and lower case.                                                         *)
(***************************************************************************)
LowerLetters == <<"a","b","c","d","e","f","g","h","i","j","k","l","m",
                  "n","o","p","q","r","s","t","u","v","w","x","y","z">>
UpperLetters == <<"A","B","C","D","E","F","G","H","I","J","K","L","M",
                  "N","O","P","Q","R","S","T","U","V","W","X","Y","Z">>
Digits       == <<"0","1","2","3","4","5","6","7","8","9">>

IndexOf(c, tbl) == CHOOSE i \in 1..Len(tbl) : tbl[i] = c

CharUpper(c) == IF c \in Range(LowerLetters) THEN UpperLetters[IndexOf(c, LowerLetters)] ELSE c
CharLower(c) == IF c \in Range(UpperLetters) THEN LowerLetters[IndexOf(c, UpperLetters)] ELSE c

ORD_UPPER_A == 65
ORD_LOWER_A == 97
ORD_ZERO    == 48

\* ord(c)
Ord(c) ==
    IF c \in Range(UpperLetters) THEN ORD_UPPER_A + IndexOf(c, UpperLetters) - 1
    ELSE IF c \in Range(LowerLetters) THEN ORD_LOWER_A + IndexOf(c, LowerLetters) - 1
    ELSE ORD_ZERO + IndexOf(c, Digits) - 1

StrLower(s) == [i \in 1..Len(s) |-> CharLower(s[i])]

\* str.capitalize(): the first character upper-cased, the rest lower-cased.
StrCapitalize(s) == [i \in 1..Len(s) |-> IF i = 1 THEN CharUpper(s[i]) ELSE CharLower(s[i])]

Male   == <<"M","a","l","e">>
Female == <<"F","e","m","a","l","e">>
Trans  == <<"T","r","a","n","s">>
Couple == <<"C","o","u","p","l","e">>

(***************************************************************************)
(* The helper functions of app.py.                                         *)
(***************************************************************************)
FLAG_OFFSET == 127397

\* Mutant: the code points of the characters as given, without upper().
country_to_flag_as_given(country_code) ==
    IF country_code = <<>> \/ Len(country_code) # 2
    THEN <<>>
    ELSE << Ord(country_code[1]) + FLAG_OFFSET,
            Ord(country_code[2]) + FLAG_OFFSET >>

\* country_to_flag: the flag as its sequence of code points.
country_to_flag(country_code) ==
    IF country_code = <<>> \/ Len(country_code) # 2
    THEN <<>>
    ELSE << Ord(CharUpper(country_code[1])) + FLAG_OFFSET,
            Ord(CharUpper(country_code[2])) + FLAG_OFFSET >>

\* Mutant: the lookup without lower().
gender_to_display_exact(gender_code) ==
    IF gender_code = <<"f">> THEN Female
    ELSE IF gender_code = <<"m">> THEN Male
    ELSE IF gender_code = <<"t">> THEN Trans
    ELSE IF gender_code = <<"c">> THEN Couple
    ELSE StrCapitalize(gender_code)

\* str(n) of a natural number: its decimal digits.
RECURSIVE Decimal(_)
Decimal(n) ==
    IF n < 10 THEN <<Digits[n + 1]>>
    ELSE Append(Decimal(n \div 10), Digits[(n % 10) + 1])

\* Mutant: the minutes without the remainder of the hours.
format_duration_all_minutes(seconds) ==
    LET hours == seconds \div 3600
        minutes == seconds \div 60
    IN IF hours > 0
       THEN Decimal(hours) \o <<"h", " ">> \o Decimal(minutes) \o <<"m">>
       ELSE Decimal(minutes) \o <<"m">>

\* format_duration: // and % of Python round toward minus infinity, as
\* \div and % do.
format_duration(seconds) ==
    LET hours == seconds \div 3600
        minutes == (seconds % 3600) \div 60
    IN IF hours > 0
       THEN Decimal(hours) \o <<"h", " ">> \o Decimal(minutes) \o <<"m">>
       ELSE Decimal(minutes) \o <<"m">>

\* gender_to_display: gender_map.get(code.lower(), code.capitalize())
gender_to_display(gender_code) ==
    LET k == StrLower(gender_code) IN
    IF k = <<"f">> THEN Female
    ELSE IF k = <<"m">> THEN Male
    ELSE IF k = <<"t">> THEN Trans
    ELSE IF k = <<"c">> THEN Couple
    ELSE StrCapitalize(gender_code)

(***************************************************************************)
(* Rooms as the upstream room-list endpoint returns them.  'start_time'    *)
(* is the key index reads; has_start_time tells whether the room has it.   *)
(***************************************************************************)
Room(u, n, g, c, p, tags, hasStart, start) ==
    [username |-> u, num_users |-> n, gender |-> g, country |-> c,
     private_price |-> p, tags |-> tags,
     has_start_time |-> hasStart, start_time |-> start]

RoomAlice == Room("alice", 5, <<"f">>, <<"U","S">>, -1, << <<"N","e","w">> >>, FALSE, 0)
RoomBob   == Room("bob",   9, <<"m">>, <<>>,        30, << <<"n","e","w">>, <<"h","d">> >>, TRUE, 50)
RoomCarol == Room("carol", 5, <<"s">>, <<"g","b">>, 6,  <<>>, FALSE, 0)

UpstreamRooms == {RoomAlice, RoomBob, RoomCarol}

\* Is s a sequence without repetitions?
Distinct(s) == \A i, j \in 1..Len(s) : i # j => s[i] # s[j]

\* The room lists the upstream can answer with: no room twice.
RoomLists ==
    {l \in UNION {[1..n -> UpstreamRooms] : n \in 0..MaxRooms} : Distinct(l)}

(***************************************************************************)
(* rooms.sort(key=lambda r: r.get("num_users", 0), reverse=True): a stable *)
(* sort, so rooms with equal viewer counts keep their order.               *)
(***************************************************************************)
RECURSIVE InsertByViewers(_, _)
InsertByViewers(r, sorted) ==
    IF sorted = <<>> THEN <<r>>
    ELSE IF Head(sorted).num_users >= r.num_users
         THEN <<Head(sorted)>> \o InsertByViewers(r, Tail(sorted))
         ELSE <<r>> \o sorted

RECURSIVE SortByViewers(_)
SortByViewers(rooms) ==
    IF rooms = <<>> THEN <<>>
    ELSE InsertByViewers(rooms[Len(rooms)], SortByViewers(SubSeq(rooms, 1, Len(rooms) - 1)))

(***************************************************************************)
(* The render-time fields index adds to each room.                         *)
(***************************************************************************)
\* time.time() and datetime.now().timestamp(): the clock, in milliseconds.
\* int(time.time() * 1000)
ClockMs == now * 1000 + millis

\* int(x) for x = a / b, b > 0: the fraction is cut off, toward zero.
IntOf(a, b) == IF a >= 0 THEN a \div b ELSE -((-a) \div b)

\* int(current_time - room.get('start_time', current_time)), current_time
\* in milliseconds and the start in seconds.
Uptime(room, current_time) ==
    IntOf(current_time - (IF room.has_start_time THEN room.start_time * 1000
                          ELSE current_time), 1000)

\* Mutant: a room of exactly the threshold counted as new.
IsNewInclusive(uptime) == uptime <= NEW_THRESHOLD

IsNew(uptime) == uptime < NEW_THRESHOLD

Enhance(room, current_time) ==
    [base |-> room,
     flag |-> country_to_flag(room.country),
     gender_display |-> gender_to_display(room.gender),
     uptime |-> Uptime(room, current_time),
     is_new |-> IsNew(Uptime(room, current_time)),
     duration |-> format_duration(Uptime(room, current_time))]

EnhanceAll(rooms, current_time) ==
    [i \in 1..Len(rooms) |-> Enhance(rooms[i], current_time)]

\* sum(r.get("num_users", 0) for r in rooms)
TotalViewers(rooms) == SeqSum([i \in 1..Len(rooms) |-> rooms[i].num_users])

\* sum(1 for r in rooms if r.get("private_price", 0) > 0)
PrivateRooms(rooms) == Cardinality({i \in 1..Len(rooms) : rooms[i].private_price > 0})

\* {tag.lower() for r in rooms for tag in r.get("tags", [])}; the page lists
\* them sorted, the model keeps the set.
AllTags(rooms) ==
    UNION {{StrLower(rooms[i].tags[j]) : j \in 1..Len(rooms[i].tags)} : i \in 1..Len(rooms)}

(***************************************************************************)
(* The chat-roster text: str.split and the loop of room_users.             *)
(***************************************************************************)
\* The rest of s.split(sep) from position i on, cur being the part begun.
RECURSIVE SplitFrom(_, _, _, _)
SplitFrom(s, sep, i, cur) ==
    IF i > Len(s) THEN <<cur>>
    ELSE IF s[i] = sep
         THEN <<cur>> \o SplitFrom(s, sep, i + 1, <<>>)
         ELSE SplitFrom(s, sep, i + 1, Append(cur, s[i]))

\* s.split(sep)
Split(s, sep) == SplitFrom(s, sep, 1, <<>>)

\* Mutant: the code looked up without regard to letter case, as
\* gender_to_display does.
RosterGenderFoldsCase(gender) ==
    LET k == StrLower(gender) IN
    IF k = <<"m">> THEN Male
    ELSE IF k = <<"f">> THEN Female
    ELSE IF k = <<"t">> THEN Trans
    ELSE IF k = <<"c">> THEN Couple
    ELSE gender

\* gender_map.get(gender, gender) of room_users
RosterGender(gender) ==
    IF gender = <<"m">> THEN Male
    ELSE IF gender = <<"f">> THEN Female
    ELSE IF gender = <<"t">> THEN Trans
    ELSE IF gender = <<"c">> THEN Couple
    ELSE gender

\* if len(user_parts) >= 3
WellFormed(user_parts) == Len(user_parts) >= 3

\* One pass of the for loop body over user_info, users being the list so far.
RosterStep(user_info, users) ==
    LET user_parts == Split(user_info, "|") IN
    IF WellFormed(user_parts)
    THEN Append(users, [username |-> user_parts[1],
                        status   |-> user_parts[2],
                        gender   |-> RosterGender(user_parts[3])])
    ELSE users

\* for user_info in infos: ...
RECURSIVE RosterLoop(_, _)
RosterLoop(infos, users) ==
    IF infos = <<>> THEN users
    ELSE RosterLoop(Tail(infos), RosterStep(Head(infos), users))

\* Mutant: the leading count element parsed as a user record.
ParseRosterKeepsFirst(raw_data) ==
    IF raw_data = <<>> THEN <<>>
    ELSE LET parts == Split(raw_data, ",") IN
         IF Len(parts) > 1 THEN RosterLoop(parts, <<>>) ELSE <<>>

\* The users room_users builds from response.text.
ParseRoster(raw_data) ==
    IF raw_data = <<>> THEN <<>>
    ELSE LET parts == Split(raw_data, ",") IN
         IF Len(parts) > 1 THEN RosterLoop(Tail(parts), <<>>) ELSE <<>>

(***************************************************************************)
(* Responses.  op is the handler, status the HTTP status, body the kind of *)
(* payload; branch is the arm of index's cache test that ran; attempts     *)
(* counts the calls the handler made to the upstream and fetched is the    *)
(* outcome of the last one ("none" when no call was made).  payload is the  *)
(* document a save request carried, data the document a get request        *)
(* returned, clip_id the id save_clip reports.  cache_was_fresh             *)
(* records, for /api/refresh, whether the cache file held an unexpired     *)
(* envelope when the request arrived: an observation the handler itself    *)
(* never makes.                                                            *)
(***************************************************************************)
NoResp ==
    [op |-> "none", status |-> 0, body |-> "none", branch |-> "none",
     attempts |-> 0, fetched |-> "none", cache_was_fresh |-> FALSE,
     rooms |-> <<>>, all_tags |-> {}, total_viewers |-> 0, private_rooms |-> 0,
     online_favorites |-> <<>>, raw |-> <<>>, users |-> <<>>, count |-> 0,
     payload |-> <<>>, data |-> <<>>, clip_id |-> -1]

\* What an upstream call can end in: an answer, or one of the failures
\* requests.get, raise_for_status and response.json() raise.
UpstreamFailures == {"network_error", "http_error", "bad_json"}
UpstreamOutcomes == {"ok"} \cup UpstreamFailures

(***************************************************************************)
(* index                                                                   *)
(***************************************************************************)
\* The page index renders from rooms once it holds them: sorted by viewer
\* count, each room with its render-time fields, and the statistics.
IndexPage(branch, attempts, fetched, rooms, current_time) ==
    LET sorted == SortByViewers(rooms) IN
    [NoResp EXCEPT !.op = "index", !.status = 200, !.body = "page",
                   !.branch = branch, !.attempts = attempts, !.fetched = fetched,
                   !.rooms = EnhanceAll(sorted, current_time),
                   !.all_tags = AllTags(sorted),
                   !.total_viewers = TotalViewers(sorted),
                   !.private_rooms = PrivateRooms(sorted)]

\* Mutant: the except clause answering with an error instead of a page.
IndexFallbackError(branch, attempts, fetched) ==
    [NoResp EXCEPT !.op = "index", !.status = 500, !.body = "error",
                   !.branch = branch, !.attempts = attempts, !.fetched = fetched]

\* The page after the except clause: no rooms, no tags, zero statistics.
IndexFallback(branch, attempts, fetched) ==
    [NoResp EXCEPT !.op = "index", !.status = 200, !.body = "page",
                   !.branch = branch, !.attempts = attempts, !.fetched = fetched]

\* Mutant: a hit that slides the expiry of the envelope it served.
IndexHitBranchTouches(cache) ==
    /\ resp' = IndexPage("hit", 0, "none", cache.rooms, ClockMs)
    /\ cacheFile' = save_data(Envelope(cache.rooms, now + CACHE_TTL))
    /\ UNCHANGED <<now, favFile, rosterText, storeVars>>

\* Mutant: a hit that writes the rooms back as it renders them, in the
\* order of the page.
IndexHitBranchPersistsView(cache) ==
    /\ resp' = IndexPage("hit", 0, "none", cache.rooms, ClockMs)
    /\ cacheFile' = save_data(Envelope(SortByViewers(cache.rooms), cache.expires))
    /\ UNCHANGED <<now, favFile, rosterText, storeVars>>

\* if cache and cache.get('expires', 0) > time.time(): rooms = cache.get('rooms', [])
IndexHitBranch(cache) ==
    /\ resp' = IndexPage("hit", 0, "none", cache.rooms, ClockMs)
    /\ UNCHANGED <<now, cacheFile, favFile, rosterText, storeVars>>

\* else: response is bound to a str literal holding a recorded answer of the
\* room-list endpoint, and response.raise_for_status() is called on it.  A
\* str has no such method: AttributeError, before response.json() and
\* save_data are reached, and the except clause renders the fallback page.
\* No call to the upstream is made.
IndexFetchBranch ==
    /\ resp' = IndexFallback("fetch", 0, "none")
    /\ UNCHANGED <<now, cacheFile, favFile, rosterText, storeVars>>

index ==
    LET cache == load_data(cacheFile, EmptyDict) IN
    IF CacheFresh(cache, now) THEN IndexHitBranch(cache) ELSE IndexFetchBranch

(***************************************************************************)
(* /api/refresh                                                            *)
(***************************************************************************)
\* [room['username'] for room in rooms if room['username'] in favorites]
OnlineFavorites(rooms, favorites) ==
    LET names == [i \in 1..Len(rooms) |-> rooms[i].username]
        IsFav(u) == u \in Range(favorites)
    IN SelectSeq(names, IsFav)

\* Mutant: the expiry written without the current time.
RefreshOkFixedExpiry(rooms) ==
    /\ cacheFile' = save_data(Envelope(rooms, CACHE_TTL))
    /\ resp' = [NoResp EXCEPT !.op = "refresh", !.status = 200, !.body = "rooms",
                              !.attempts = 1, !.fetched = "ok",
                              !.cache_was_fresh =
                                  CacheFresh(load_data(cacheFile, EmptyDict), now),
                              !.rooms = rooms,
                              !.online_favorites =
                                  OnlineFavorites(rooms, load_data(favFile, <<>>))]
    /\ UNCHANGED <<now, favFile, rosterText, storeVars>>

\* The upstream answered: the cache is overwritten and the rooms returned.
RefreshOk(rooms) ==
    /\ cacheFile' = save_data(Envelope(rooms, now + CACHE_TTL))
    /\ resp' = [NoResp EXCEPT !.op = "refresh", !.status = 200, !.body = "rooms",
                              !.attempts = 1, !.fetched = "ok",
                              !.cache_was_fresh =
                                  CacheFresh(load_data(cacheFile, EmptyDict), now),
                              !.rooms = rooms,
                              !.online_favorites =
                                  OnlineFavorites(rooms, load_data(favFile, <<>>))]
    /\ UNCHANGED <<now, favFile, rosterText, storeVars>>

\* Mutant: a failed fetch cached as an empty room list.
RefreshFailedPoisons(failure) ==
    /\ cacheFile' = save_data(Envelope(<<>>, now + CACHE_TTL))
    /\ resp' = [NoResp EXCEPT !.op = "refresh", !.status = 500, !.body = "error",
                              !.attempts = 1, !.fetched = failure,
                              !.cache_was_fresh =
                                  CacheFresh(load_data(cacheFile, EmptyDict), now)]
    /\ UNCHANGED <<now, favFile, rosterText, storeVars>>

\* except Exception as e: return jsonify({'error': str(e)}), 500
RefreshFailed(failure) ==
    /\ resp' = [NoResp EXCEPT !.op = "refresh", !.status = 500, !.body = "error",
                              !.attempts = 1, !.fetched = failure,
                              !.cache_was_fresh =
                                  CacheFresh(load_data(cacheFile, EmptyDict), now)]
    /\ UNCHANGED <<now, cacheFile, favFile, rosterText, storeVars>>

refresh_data ==
    \/ \E rooms \in RoomLists : RefreshOk(rooms)
    \/ \E failure \in UpstreamFailures : RefreshFailed(failure)

(***************************************************************************)
(* /room/<username>/summary and /room/<username>/users                     *)
(***************************************************************************)
\* Mutant: a second call to the upstream after a failed one.
SummaryResponseRetries(outcome) ==
    IF outcome = "ok"
    THEN [NoResp EXCEPT !.op = "summary", !.status = 200, !.body = "summary",
                        !.attempts = 1, !.fetched = "ok"]
    ELSE [NoResp EXCEPT !.op = "summary", !.status = 500, !.body = "error",
                        !.attempts = 2, !.fetched = outcome]

SummaryResponse(outcome) ==
    IF outcome = "ok"
    THEN [NoResp EXCEPT !.op = "summary", !.status = 200, !.body = "summary",
                        !.attempts = 1, !.fetched = "ok"]
    ELSE [NoResp EXCEPT !.op = "summary", !.status = 500, !.body = "error",
                        !.attempts = 1, !.fetched = outcome]

summary ==
    /\ \E outcome \in UpstreamOutcomes : resp' = SummaryResponse(outcome)
    /\ UNCHANGED <<now, cacheFile, favFile, rosterText, storeVars>>

\* The roster endpoint answers with text, so response.json() is never called.
RosterOutcomes == UpstreamOutcomes \ {"bad_json"}

\* Mutant: an upstream failure answered as a room without occupants.
RoomUsersSwallowsFailure(outcome, raw_data) ==
    LET users == IF outcome = "ok" THEN ParseRoster(raw_data) ELSE <<>> IN
    [NoResp EXCEPT !.op = "room_users", !.status = 200, !.body = "users",
                   !.attempts = 1, !.fetched = outcome,
                   !.raw = raw_data, !.users = users, !.count = Len(users)]

\* Mutant: count taken as the number of elements after the first, the
\* malformed ones included.
RoomUsersCountsElements(outcome, raw_data) ==
    IF outcome = "ok"
    THEN LET users == ParseRoster(raw_data) IN
         [NoResp EXCEPT !.op = "room_users", !.status = 200, !.body = "users",
                        !.attempts = 1, !.fetched = "ok",
                        !.raw = raw_data, !.users = users,
                        !.count = IF raw_data = <<>> THEN 0
                                  ELSE Len(Split(raw_data, ",")) - 1]
    ELSE [NoResp EXCEPT !.op = "room_users", !.status = 500, !.body = "error",
                        !.attempts = 1, !.fetched = outcome]

RoomUsersResponse(outcome, raw_data) ==
    IF outcome = "ok"
    THEN LET users == ParseRoster(raw_data) IN
         [NoResp EXCEPT !.op = "room_users", !.status = 200, !.body = "users",
                        !.attempts = 1, !.fetched = "ok",
                        !.raw = raw_data, !.users = users, !.count = Len(users)]
    ELSE [NoResp EXCEPT !.op = "room_users", !.status = 500, !.body = "error",
                        !.attempts = 1, !.fetched = outcome]

room_users ==
    /\ \E outcome \in RosterOutcomes : resp' = RoomUsersResponse(outcome, rosterText)
    /\ UNCHANGED <<now, cacheFile, favFile, rosterText, storeVars>>

(***************************************************************************)
(* /save_favorites                                                         *)
(***************************************************************************)
\* The data directory as save_data finds it: "ok"; "no_write", where
\* open(file_path, 'w') raises and the file stays as it was; "full", where
\* open has truncated the file when json.dump raises.
DiskConditions == {"ok", "no_write", "full"}

\* The file after save_data(file_path, data) under the disk condition d.
Written(file, data, d) ==
    IF d = "ok" THEN save_data(data)
    ELSE IF d = "no_write" THEN file
    ELSE Corrupt

\* Mutant: the handler catching the exception of save_data.
SaveResponseSwallows(op, payload, d) ==
    [NoResp EXCEPT !.op = op, !.status = 200, !.body = "status", !.payload = payload]

\* save_favorites, save_notes and save_preferences call save_data outside
\* any try: its exception leaves the handler and the server answers 500.
SaveResponse(op, payload, d) ==
    IF d = "ok"
    THEN [NoResp EXCEPT !.op = op, !.status = 200, !.body = "status", !.payload = payload]
    ELSE [NoResp EXCEPT !.op = op, !.status = 500, !.body = "error", !.payload = payload]

\* jsonify(load_data(...)): the get endpoints.
GetResponse(op, data) ==
    [NoResp EXCEPT !.op = op, !.status = 200, !.body = "data", !.data = data]

\* data.get('favorites', []) of the request: a list of usernames.
FavPayloads == {<<>>, <<"alice">>}

\* Mutant: the request's list added to the stored list.
save_favorites_merges ==
    /\ \E favorites \in FavPayloads :
           /\ favFile' = Written(favFile, load_data(favFile, <<>>) \o favorites, disk)
           /\ resp' = SaveResponse("save_favorites", favorites, disk)
    /\ UNCHANGED <<now, cacheFile, rosterText, storeVars>>

save_favorites ==
    /\ \E favorites \in FavPayloads :
           /\ favFile' = Written(favFile, favorites, disk)
           /\ resp' = SaveResponse("save_favorites", favorites, disk)
    /\ UNCHANGED <<now, cacheFile, rosterText, storeVars>>

get_favorites ==
    /\ resp' = GetResponse("get_favorites", load_data(favFile, <<>>))
    /\ UNCHANGED <<now, cacheFile, favFile, rosterText, storeVars>>

(***************************************************************************)
(* Notes and preferences.  A JSON object is the sequence of its            *)
(* <<key, value>> pairs in insertion order, values as their JSON text.     *)
(***************************************************************************)
NotesPayloads == {<<>>, << <<"alice", "\"hi\"">> >>}

save_notes ==
    /\ \E data \in NotesPayloads :
           /\ notesFile' = Written(notesFile, data, disk)
           /\ resp' = SaveResponse("save_notes", data, disk)
    /\ UNCHANGED <<now, cacheFile, favFile, rosterText,
                   millis, prefsFile, clipsFile, disk, inflight, client>>

get_notes ==
    /\ resp' = GetResponse("get_notes", load_data(notesFile, <<>>))
    /\ UNCHANGED <<now, cacheFile, favFile, rosterText, storeVars>>

\* The default get_preferences passes to load_data.
DefaultPreferences ==
    << <<"dark_mode", "false">>, <<"quick_filter", "\"\"">>,
       <<"favorites_filter", "\"all\"">>, <<"sort_method", "\"viewers-desc\"">>,
       <<"viewer_min", "0">>, <<"viewer_max", "10000">>,
       <<"show_type", "\"all\"">>, <<"active_tags", "[]">> >>

PrefsPayloads == {<<>>, << <<"dark_mode", "true">> >>}

save_preferences ==
    /\ \E data \in PrefsPayloads :
           /\ prefsFile' = Written(prefsFile, data, disk)
           /\ resp' = SaveResponse("save_preferences", data, disk)
    /\ UNCHANGED <<now, cacheFile, favFile, rosterText,
                   millis, notesFile, clipsFile, disk, inflight, client>>

get_preferences ==
    /\ resp' = GetResponse("get_preferences", load_data(prefsFile, DefaultPreferences))
    /\ UNCHANGED <<now, cacheFile, favFile, rosterText, storeVars>>

(***************************************************************************)
(* Clips.  The clips document maps usernames to clip lists: the sequence   *)
(* of its entries [user, clips] in insertion order.  A clip id is the      *)
(* clock in milliseconds, and so is the timestamp.                         *)
(***************************************************************************)
ClipUsers == {"alice", "bob"}
ClipData  == {"d1", "d2"}

\* username in clips
HasUser(clips, username) == \E i \in 1..Len(clips) : clips[i].user = username

\* clips.get(username, [])
ClipsOf(clips, username) ==
    IF HasUser(clips, username)
    THEN clips[CHOOSE i \in 1..Len(clips) : clips[i].user = username].clips
    ELSE <<>>

\* The number of clips of a document.
ClipCount(clips) == SeqSum([i \in 1..Len(clips) |-> Len(clips[i].clips)])

\* Mutant: the new clip replacing the user's list.
AppendClipReplaces(clips, username, clip) ==
    LET base == IF HasUser(clips, username) THEN clips
                ELSE Append(clips, [user |-> username, clips |-> <<>>])
    IN [i \in 1..Len(base) |->
           IF base[i].user = username
           THEN [base[i] EXCEPT !.clips = <<clip>>] ELSE base[i]]

\* if username not in clips: clips[username] = []
\* clips[username].append(clip)
AppendClip(clips, username, clip) ==
    LET base == IF HasUser(clips, username) THEN clips
                ELSE Append(clips, [user |-> username, clips |-> <<>>])
    IN [i \in 1..Len(base) |->
           IF base[i].user = username
           THEN [base[i] EXCEPT !.clips = Append(@, clip)] ELSE base[i]]

\* The response of save_clip and delete_clip: the except clause answers a
\* failed save_data with success False and 500.
ClipResponse(op, username, clip_data, clip_id, d) ==
    IF d = "ok"
    THEN [NoResp EXCEPT !.op = op, !.status = 200, !.body = "status",
                        !.payload = <<username, clip_data>>, !.clip_id = clip_id]
    ELSE [NoResp EXCEPT !.op = op, !.status = 500, !.body = "error",
                        !.payload = <<username, clip_data>>, !.clip_id = clip_id]

\* save_clip on a request with this username and clipData.
SaveClipRequest(username, clip_data) ==
    LET clips == load_data(clipsFile, <<>>)
        clip  == [id |-> ClockMs, timestamp |-> ClockMs, data |-> clip_data]
    IN /\ ClipCount(clips) < MaxClips
       /\ clipsFile' = Written(clipsFile, AppendClip(clips, username, clip), disk)
       /\ resp' = ClipResponse("save_clip", username, clip_data, ClockMs, disk)
       /\ UNCHANGED <<now, cacheFile, favFile, rosterText,
                      millis, notesFile, prefsFile, disk>>

save_clip ==
    /\ \E username \in ClipUsers, clip_data \in ClipData :
           SaveClipRequest(username, clip_data)
    /\ UNCHANGED <<inflight, client>>

get_clips ==
    /\ \E username \in ClipUsers :
           resp' = [GetResponse("get_clips", ClipsOf(load_data(clipsFile, <<>>), username))
                        EXCEPT !.payload = <<username, "">>]
    /\ UNCHANGED <<now, cacheFile, favFile, rosterText, storeVars>>

\* Mutant: the filter keeping the clips with the id instead of the others.
RemoveClipKeepsId(clips, clip_id) ==
    [i \in 1..Len(clips) |->
        LET Hit(clip) == clip.id = clip_id
        IN [clips[i] EXCEPT !.clips = SelectSeq(@, Hit)]]

\* for username, user_clips in clips.items():
\*     clips[username] = [clip for clip in user_clips if clip['id'] != clip_id]
RemoveClip(clips, clip_id) ==
    [i \in 1..Len(clips) |->
        LET Other(clip) == clip.id # clip_id
        IN [clips[i] EXCEPT !.clips = SelectSeq(@, Other)]]

\* The ids a delete request can name: those the clock can have given.
ClipIds == 0..MaxMillis

delete_clip ==
    \E clip_id \in ClipIds :
        LET clips == load_data(clipsFile, <<>>) IN
        /\ clipsFile' = Written(clipsFile, RemoveClip(clips, clip_id), disk)
        /\ resp' = ClipResponse("delete_clip", "", "", clip_id, disk)
        /\ UNCHANGED <<now, cacheFile, favFile, rosterText,
                       millis, notesFile, prefsFile, disk, inflight, client>>

\* A millisecond passes.
TickMs ==
    /\ millis < MaxMillis
    /\ millis' = millis + 1
    /\ resp' = NoResp
    /\ UNCHANGED <<now, cacheFile, favFile, rosterText,
                   notesFile, prefsFile, clipsFile, disk, inflight, client>>

\* The data directory becomes unwritable, full, or usable again.
DiskChanges ==
    /\ \E d \in DiskConditions \ {disk} : disk' = d
    /\ resp' = NoResp
    /\ UNCHANGED <<now, cacheFile, favFile, rosterText,
                   millis, notesFile, prefsFile, clipsFile, inflight, client>>

(***************************************************************************)
(* The script of the page.  Each action is one task of the browser: an     *)
(* event handler or a callback, run to completion.                         *)
(*   currentUsername, recordingTimeLeft: the variables of these names;     *)
(*   detailOpen: the detail box is shown;                                  *)
(*   capture: "asking" while getDisplayMedia awaits the user;              *)
(*   recorder: "none" for mediaRecorder = null, else mediaRecorder.state;  *)
(*   stopPending: a stop event of the recorder is queued;                  *)
(*   interval: recordingInterval is set and not cleared;                   *)
(*   buttonDisabled, statusShown: the record button and the status line;   *)
(*   reading: the blobs a FileReader is reading, each with the room its    *)
(*   recording was started in; startedIn: that room for the recorder;      *)
(*   recordings, uploads: the recordings ended and the uploads sent;       *)
(*   permission: Notification.permission; lastOnlineStatus: the object of  *)
(*   this name; polling: a fetch of /api/refresh awaits its answer;        *)
(*   polled: the online favorites of the last poll handled; notified:      *)
(*   the usernames that poll raised a notification for.                    *)
(***************************************************************************)
ClientUsers == {"alice", "bob", "carol"}

ClientIdle ==
    [currentUsername |-> "", detailOpen |-> FALSE,
     capture |-> "none", recorder |-> "none", stopPending |-> FALSE,
     interval |-> FALSE, recordingTimeLeft |-> MaxCountdown,
     buttonDisabled |-> FALSE, statusShown |-> FALSE,
     reading |-> <<>>, startedIn |-> "", recordings |-> 0, uploads |-> 0,
     permission |-> "default",
     lastOnlineStatus |-> [u \in ClientUsers |-> "undefined"],
     polling |-> FALSE, polled |-> <<>>, notified |-> {}]

\* What the script of the page leaves alone.
serverVars == <<now, cacheFile, favFile, rosterText, resp,
                millis, notesFile, prefsFile, clipsFile, disk>>

\* resetRecordingUI
resetRecordingUI(c) ==
    [c EXCEPT !.buttonDisabled = FALSE, !.statusShown = FALSE,
              !.recordingTimeLeft = MaxCountdown]

\* stopRecording: only for a recorder that is recording.
stopRecording(c) ==
    IF c.recorder = "recording"
    THEN resetRecordingUI([c EXCEPT !.recorder = "inactive", !.stopPending = TRUE,
                                    !.interval = FALSE, !.recordings = @ + 1])
    ELSE c

\* loadDetails(username): a click on a room card or a navigation button.
loadDetails ==
    /\ \E username \in ClipUsers :
           client' = [client EXCEPT !.currentUsername = username, !.detailOpen = TRUE]
    /\ UNCHANGED <<serverVars, inflight>>

closeDetails ==
    /\ client.detailOpen
    /\ client' = stopRecording([client EXCEPT !.detailOpen = FALSE])
    /\ UNCHANGED <<serverVars, inflight>>

\* startRecording up to its await: a click on the record button of the
\* detail box, which a disabled button does not take.
ClickRecord ==
    /\ client.detailOpen /\ ~client.buttonDisabled
    /\ client.capture = "none" /\ ~client.stopPending
    /\ client.recordings < MaxRecordings
    /\ client' = [client EXCEPT !.capture = "asking"]
    /\ UNCHANGED <<serverVars, inflight>>

\* startRecording after its await: the user has chosen what to share.
CaptureGranted ==
    /\ client.capture = "asking"
    /\ client' = [client EXCEPT !.capture = "none", !.recorder = "recording",
                                !.startedIn = client.currentUsername,
                                !.buttonDisabled = TRUE, !.statusShown = TRUE,
                                !.recordingTimeLeft = MaxCountdown,
                                !.interval = TRUE]
    /\ UNCHANGED <<serverVars, inflight>>

\* startRecording's catch: the user has refused.
CaptureDenied ==
    /\ client.capture = "asking"
    /\ client' = [client EXCEPT !.capture = "none"]
    /\ UNCHANGED <<serverVars, inflight>>

\* The setInterval callback of startRecording.
CountdownTick ==
    /\ client.interval
    /\ client.recordingTimeLeft > -MaxOverrun
    /\ LET c == [client EXCEPT !.recordingTimeLeft = @ - 1] IN
       client' = IF c.recordingTimeLeft <= 0 THEN stopRecording(c) ELSE c
    /\ UNCHANGED <<serverVars, inflight>>

\* The user ends the screen sharing in the browser: the tracks end and the
\* recorder stops by itself, which queues its stop event.
TracksEnded ==
    /\ client.recorder = "recording"
    /\ client' = [client EXCEPT !.recorder = "inactive", !.stopPending = TRUE,
                                !.recordings = @ + 1]
    /\ UNCHANGED <<serverVars, inflight>>

\* mediaRecorder.onstop: saveClip(blob) starts a FileReader on the blob.
OnStop ==
    /\ client.stopPending
    /\ client' = [client EXCEPT !.stopPending = FALSE,
                                !.reading = Append(@, client.startedIn)]
    /\ UNCHANGED <<serverVars, inflight>>

\* reader.onloadend of saveClip: the POST to /save_clip, with the
\* currentUsername of this moment.
OnLoadEnd ==
    /\ client.reading # <<>>
    /\ client' = [client EXCEPT !.reading = Tail(@), !.uploads = @ + 1]
    /\ inflight' = Append(inflight,
           [op |-> "save_clip", payload |-> <<client.currentUsername, "d1">>,
            room |-> Head(client.reading)])
    /\ UNCHANGED serverVars

\* The server handles the upload.
ServeUpload ==
    /\ inflight # <<>>
    /\ SaveClipRequest(inflight[1].payload[1], inflight[1].payload[2])
    /\ inflight' = Tail(inflight)
    /\ UNCHANGED client

\* Mutant: checkFavoritesOnline without its update of the offline status.
checkFavoritesOnlineKeepsOnline(c, onlineFavorites) ==
    IF c.permission = "granted"
    THEN [c EXCEPT !.notified = {u \in Range(onlineFavorites) :
                                     c.lastOnlineStatus[u] # "true"},
                   !.lastOnlineStatus =
                       [u \in ClientUsers |->
                           IF u \in Range(onlineFavorites) THEN "true" ELSE @[u]]]
    ELSE [c EXCEPT !.notified = {}]

\* checkFavoritesOnline: a notification for each online favorite whose
\* lastOnlineStatus is not true, then true for the online ones and false
\* for the other keys of lastOnlineStatus.
checkFavoritesOnline(c, onlineFavorites) ==
    IF c.permission = "granted"
    THEN [c EXCEPT !.notified = {u \in Range(onlineFavorites) :
                                     c.lastOnlineStatus[u] # "true"},
                   !.lastOnlineStatus =
                       [u \in ClientUsers |->
                           IF u \in Range(onlineFavorites) THEN "true"
                           ELSE IF @[u] = "undefined" THEN "undefined" ELSE "false"]]
    ELSE [c EXCEPT !.notified = {}]

\* The setInterval callback of startUpdates: fetch('/api/refresh').
PollTimer ==
    /\ ~client.polling
    /\ client' = [client EXCEPT !.polling = TRUE]
    /\ resp' = NoResp
    /\ UNCHANGED <<now, cacheFile, favFile, rosterText,
                   millis, notesFile, prefsFile, clipsFile, disk, inflight>>

\* The then-callbacks of the fetch.  An error answer has no
\* online_favorites: forEach of undefined throws, the catch logs it and
\* lastOnlineStatus stays.
HandleRefresh ==
    /\ client.polling /\ resp.op = "refresh"
    /\ client' = IF resp.status = 200
                 THEN [checkFavoritesOnline(client, resp.online_favorites)
                          EXCEPT !.polling = FALSE, !.polled = resp.online_favorites]
                 ELSE [client EXCEPT !.polling = FALSE, !.notified = {}]
    /\ UNCHANGED <<serverVars, inflight>>

(***************************************************************************)
(* The environment: the process (re)starts, time passes, the roster of the *)
(* room changes.                                                           *)
(***************************************************************************)
\* Mutant: the initialisation writing the empty document unconditionally.
InitFileAlways(file, empty) == save_data(empty)

\* if not os.path.exists(F): save_data(F, <empty document>)
InitFile(file, empty) == IF file.kind = "missing" THEN save_data(empty) ELSE file

\* The __main__ block, on a data directory that can be written: the server
\* is not started when a save_data of the block raises.
Startup ==
    /\ disk = "ok"
    /\ favFile' = InitFile(favFile, <<>>)
    /\ notesFile' = InitFile(notesFile, <<>>)
    /\ prefsFile' = InitFile(prefsFile, <<>>)
    /\ cacheFile' = InitFile(cacheFile, EmptyDict)
    /\ clipsFile' = InitFile(clipsFile, <<>>)
    /\ resp' = NoResp
    /\ UNCHANGED <<now, rosterText, millis, disk, inflight, client>>

Tick ==
    /\ now + TickLen <= MaxTime
    /\ now' = now + TickLen
    /\ resp' = NoResp
    /\ UNCHANGED <<cacheFile, favFile, rosterText, storeVars>>

\* Roster lines of the running system: the example of the documentation in
\* short, a line with a malformed record, and no text at all.
SampleRosters ==
    { <<>>,
      <<"2", ",", "a", "|", "x", "|", "f", "|", "0", ",", "b", "|", "x", "|", "m", "|", "0">>,
      <<"1", ",", "a", "|", "x", ",", "b", "|", "x", "|", "s">> }

RosterChanges ==
    /\ \E r \in SampleRosters \ {rosterText} : rosterText' = r
    /\ resp' = NoResp
    /\ UNCHANGED <<now, cacheFile, favFile, storeVars>>

(***************************************************************************)
(* The running system.                                                     *)
(***************************************************************************)
\* The stores a specification leaves out of its requests.
StoresIdle ==
    /\ millis = 0
    /\ notesFile = Missing
    /\ prefsFile = Missing
    /\ clipsFile = Missing
    /\ disk = "ok"
    /\ inflight = <<>>
    /\ client = ClientIdle

Init ==
    /\ now = 0
    /\ cacheFile \in {Missing, Corrupt, JsonFile(EmptyDict)}
    /\ favFile \in {Missing, JsonFile(<<>>)}
    /\ rosterText \in SampleRosters
    /\ resp = NoResp
    /\ StoresIdle

Next ==
    \/ index
    \/ refresh_data
    \/ summary
    \/ room_users
    \/ save_favorites
    \/ Startup
    \/ Tick
    \/ RosterChanges

Spec == Init /\ [][Next]_vars

(***************************************************************************)
(* The roster parser on every line up to MaxRaw characters.                *)
(***************************************************************************)
RosterAlphabet == {",", "|", "a", "m"}
RosterLines == UNION {[1..n -> RosterAlphabet] : n \in 0..MaxRaw}

InitRoster ==
    /\ now = 0
    /\ cacheFile = Missing
    /\ favFile = Missing
    /\ rosterText \in RosterLines
    /\ resp = NoResp
    /\ StoresIdle

NextRoster == room_users

SpecRoster == InitRoster /\ [][NextRoster]_vars

(***************************************************************************)
(* Properties.  A step whose response is new and has op = "index" is a     *)
(* step of index, and likewise for the other handlers: every other action  *)
(* leaves a response of its own or NoResp.                                 *)
(***************************************************************************)
\* The cache file holds an envelope whose expiry is strictly later than t.
HoldsUnexpired(file, t) ==
    file.kind = "json" /\ file.doc.nonempty /\ file.doc.expires > t

\* The rooms of a rendered page without their render-time fields.
PageBaseRooms(page) == [i \in 1..Len(page.rooms) |-> page.rooms[i].base]

Occurrences(x, s) == Cardinality({i \in 1..Len(s) : s[i] = x})

\* a and b hold the same elements, each as often.
SameElements(a, b) ==
    /\ Len(a) = Len(b)
    /\ \A x \in Range(a) \cup Range(b) : Occurrences(x, a) = Occurrences(x, b)

\* C1: when the cache file holds an envelope whose expiry is strictly later
\* than the current time, index answers with a page of exactly the rooms of
\* that envelope, calls no upstream and leaves the cache file as it was.
C1_CacheHitServesEnvelope ==
    [][ (resp'.op = "index" /\ HoldsUnexpired(cacheFile, now))
        => /\ resp'.status = 200 /\ resp'.body = "page"
           /\ SameElements(PageBaseRooms(resp'), cacheFile.doc.rooms)
           /\ resp'.attempts = 0
           /\ cacheFile' = cacheFile ]_vars

\* C1 witness: index has served two rooms from an unexpired envelope, which
\* only /api/refresh can have written.
C1_Witness ==
    /\ resp.op = "index" /\ resp.branch = "hit"
    /\ HoldsUnexpired(cacheFile, now)
    /\ Len(resp.rooms) >= 2

\* C2: when the cache file holds no unexpired envelope (its expiry is not
\* later than the current time, or there is no cache), index calls the
\* upstream room list exactly once and, when the upstream answers, persists
\* {rooms, expires = now + 60} and returns those rooms.
C2_CacheMissFetchesOnce ==
    [][ (resp'.op = "index" /\ ~HoldsUnexpired(cacheFile, now))
        => /\ resp'.attempts = 1
           /\ resp'.fetched = "ok"
                => /\ cacheFile'.kind = "json" /\ cacheFile'.doc.nonempty
                   /\ cacheFile'.doc.expires = now + CACHE_TTL
                   /\ SameElements(PageBaseRooms(resp'), cacheFile'.doc.rooms) ]_vars

\* The failure of an upstream room-list fetch as a response shows it: a
\* call that ended in a failure, or index's fetch branch ending in the
\* fallback page.
RoomListFetchFailed(r) ==
    \/ r.op \in {"index", "refresh"} /\ r.fetched \in UpstreamFailures
    \/ r.op = "index" /\ r.branch = "fetch" /\ r.fetched # "ok"

\* C3: a request (index or /api/refresh) whose room-list fetch fails leaves
\* the cache file exactly as it was, whatever it held.
C3_NoNegativeCaching ==
    [][ RoomListFetchFailed(resp') => cacheFile' = cacheFile ]_vars

\* C3 witness: /api/refresh has failed and the envelope with rooms written
\* before is still in the cache file.
C3_Witness ==
    /\ resp.op = "refresh" /\ resp.fetched \in UpstreamFailures
    /\ cacheFile.kind = "json" /\ cacheFile.doc.nonempty
    /\ cacheFile.doc.rooms # <<>>

\* C4: with a cache file that is missing or does not parse, index takes the
\* fetch branch, as it does for an expired envelope, and serves no rooms
\* from the file.
C4_CorruptOrMissingIsExpired ==
    [][ (resp'.op = "index" /\ cacheFile.kind \in {"missing", "corrupt"})
        => /\ resp'.branch = "fetch"
           /\ resp' = IndexFallback("fetch", resp'.attempts, resp'.fetched)
           /\ cacheFile' = cacheFile ]_vars

\* C4 witness: index has run its fetch branch on a cache file that does not
\* parse.
C4_Witness ==
    resp.op = "index" /\ resp.branch = "fetch" /\ cacheFile.kind = "corrupt"

\* C5: every step that writes an envelope into the cache file writes the
\* rooms an upstream fetch of that step returned, with an expiry of the
\* time of that step plus 60 seconds.
C5_ExpiryIsFetchTimePlusTTL ==
    [][ (cacheFile' # cacheFile /\ cacheFile'.kind = "json" /\ cacheFile'.doc.nonempty)
        => /\ resp'.fetched = "ok"
           /\ cacheFile'.doc.rooms = resp'.rooms
           /\ cacheFile'.doc.expires = now + CACHE_TTL ]_vars

\* C5 witness: an envelope with rooms written by /api/refresh after the
\* clock has advanced.
C5_Witness ==
    /\ resp.op = "refresh" /\ resp.fetched = "ok" /\ now > 0
    /\ cacheFile.kind = "json" /\ cacheFile.doc.rooms # <<>>
    /\ cacheFile.doc.expires = now + CACHE_TTL

\* C6 as claimed: an envelope whose expiry is still in the future is never
\* replaced.
C6_OnlyExpiredOverwritten ==
    [][ HoldsUnexpired(cacheFile, now) => cacheFile' = cacheFile ]_vars

\* C6 as amended: the only step that replaces an envelope whose expiry is
\* still in the future is a successful /api/refresh; index never does.
C6_OnlyRefreshOverwritesUnexpired ==
    [][ (HoldsUnexpired(cacheFile, now) /\ cacheFile' # cacheFile)
        => resp'.op = "refresh" /\ resp'.fetched = "ok" ]_vars

\* C6 witness: /api/refresh has overwritten an envelope that had not
\* expired with other rooms.
C6_Witness ==
    /\ resp.op = "refresh" /\ resp.fetched = "ok" /\ resp.cache_was_fresh
    /\ cacheFile.doc.rooms # <<>>

\* C7: when the room-list fetch of a page render fails, index answers with
\* a page (status 200) with no rooms, no tags, 0 viewers and 0 private
\* rooms.
C7_FetchFailureDegradesToEmptyPage ==
    (resp.op = "index" /\ RoomListFetchFailed(resp))
        => /\ resp.status = 200 /\ resp.body = "page"
           /\ resp.rooms = <<>> /\ resp.all_tags = {}
           /\ resp.total_viewers = 0 /\ resp.private_rooms = 0

\* C7 witness: the fallback page, rendered while the cache file holds an
\* expired envelope with rooms.
C7_Witness ==
    /\ resp.op = "index" /\ RoomListFetchFailed(resp)
    /\ cacheFile.kind = "json" /\ cacheFile.doc.rooms # <<>>

\* C8: summary and room_users answer an upstream failure with an error
\* payload and a status other than 200, and a 200 response with a users
\* list is given only after the upstream call succeeded.
C8_DetailFailureIsAnError ==
    /\ (resp.op \in {"summary", "room_users"} /\ resp.fetched \in UpstreamFailures)
           => resp.status # 200 /\ resp.body = "error"
    /\ (resp.body = "users" /\ resp.status = 200) => resp.fetched = "ok"
    /\ (resp.op = "summary" /\ resp.status = 200) => resp.fetched = "ok"

\* C8 witness: room_users has answered an upstream failure.
C8_Witness ==
    resp.op = "room_users" /\ resp.fetched = "network_error" /\ resp.status = 500

\* C9: every request makes at most one call to the upstream, and a request
\* whose call failed made exactly that one call and ends with its failure
\* outcome.
C9_NoRetries ==
    /\ resp.attempts <= 1
    /\ resp.fetched \in UpstreamFailures
           => /\ resp.attempts = 1
              /\ resp.op \in {"summary", "room_users", "refresh"} => resp.status = 500

\* C9 witness: /api/refresh has failed after its one call.
C9_Witness ==
    resp.op = "refresh" /\ resp.fetched = "http_error" /\ resp.attempts = 1

(***************************************************************************)
(* The roster line read by positions: the separators of a text cut it into *)
(* pieces, one more than there are separators.                             *)
(***************************************************************************)
SepPositions(s, sep) == {i \in 1..Len(s) : s[i] = sep}

\* The k-th smallest member of the set of numbers P.
Nth(P, k) == CHOOSE p \in P : Cardinality({q \in P : q < p}) = k - 1

NumPieces(s, sep) == Cardinality(SepPositions(s, sep)) + 1

\* The k-th piece of s, for k in 1..NumPieces(s, sep).
Piece(s, sep, k) ==
    LET P     == SepPositions(s, sep)
        first == IF k = 1 THEN 1 ELSE Nth(P, k - 1) + 1
        last  == IF k = Cardinality(P) + 1 THEN Len(s) ELSE Nth(P, k) - 1
    IN SubSeq(s, first, last)

\* The comma-separated elements after the first with at least 3 fields.
RecordElements(raw) ==
    {k \in 2..NumPieces(raw, ",") : NumPieces(Piece(raw, ",", k), "|") >= 3}

\* C10: the users room_users returns are, in the order of the line, one
\* record {username = field 0, status = field 1} for each comma-separated
\* element after the first that has at least 3 pipe-separated fields; the
\* first element and shorter elements give no record, and an empty line
\* gives no users.
C10_RosterRecords ==
    (resp.op = "room_users" /\ resp.body = "users")
        => LET raw == resp.raw
               Q   == RecordElements(raw)
           IN /\ Len(resp.users) = Cardinality(Q)
              /\ \A j \in 1..Len(resp.users) :
                     LET element == Piece(raw, ",", Nth(Q, j)) IN
                     /\ resp.users[j].username = Piece(element, "|", 1)
                     /\ resp.users[j].status = Piece(element, "|", 2)
              /\ raw = <<>> => resp.users = <<>>

\* C10 witness: a line whose first element has 3 fields and is dropped,
\* followed by a malformed element that is skipped and by a record that is
\* kept.
C10_Witness ==
    /\ resp.op = "room_users" /\ resp.body = "users"
    /\ Len(resp.users) = 1
    /\ NumPieces(resp.raw, ",") = 3
    /\ NumPieces(Piece(resp.raw, ",", 1), "|") >= 2
    /\ NumPieces(Piece(resp.raw, ",", 2), "|") < 3

(***************************************************************************)
(* The gender lookup of room_users on roster lines of one or two records   *)
(* whose third field is any code of up to MaxCode characters.              *)
(***************************************************************************)
CodeAlphabet == {"m", "f", "t", "c", "M", "F", "x"}
GenderCodes == UNION {[1..n -> CodeAlphabet] : n \in 0..MaxCode}

\* count,a|x|<code> and count,a|x|<code>|0,b|x|m|0
GenderLines ==
    {<<"1", ",", "a", "|", "x", "|">> \o g : g \in GenderCodes}
    \cup {<<"2", ",", "a", "|", "x", "|">> \o g
              \o <<"|", "0", ",", "b", "|", "x", "|", "m", "|", "0">> : g \in GenderCodes}

InitRosterGender ==
    /\ now = 0
    /\ cacheFile = Missing
    /\ favFile = Missing
    /\ rosterText \in GenderLines
    /\ resp = NoResp
    /\ StoresIdle

NextRosterGender == room_users

SpecRosterGender == InitRosterGender /\ [][NextRosterGender]_vars

\* The label of the fixed table for a code, the code itself for any other.
GenderLabel(code) ==
    CASE code = <<"m">> -> Male
      [] code = <<"f">> -> Female
      [] code = <<"t">> -> Trans
      [] code = <<"c">> -> Couple
      [] OTHER -> code

\* C11: the gender of every parsed roster record is Male, Female, Trans or
\* Couple when the third field of its element is exactly m, f, t or c, and
\* is that third field unchanged for every other value.
C11_RosterGenderTable ==
    (resp.op = "room_users" /\ resp.body = "users")
        => LET Q == RecordElements(resp.raw) IN
           /\ Len(resp.users) = Cardinality(Q)
           /\ \A j \in 1..Len(resp.users) :
                  resp.users[j].gender =
                      GenderLabel(Piece(Piece(resp.raw, ",", Nth(Q, j)), "|", 3))

\* C11 witness: a record whose code is the upper-case letter of a table
\* entry, passed through unchanged, next to one whose code is in the table.
C11_Witness ==
    /\ resp.op = "room_users" /\ resp.body = "users"
    /\ Len(resp.users) = 2
    /\ resp.users[1].gender = <<"M">>
    /\ resp.users[2].gender = Male

(***************************************************************************)
(* The stores of favorites, notes and preferences, with clips saved and    *)
(* read back, on a data directory that can fail.                           *)
(***************************************************************************)
InitStore ==
    /\ now = 0
    /\ millis = 0
    /\ cacheFile = Missing
    /\ favFile \in {Missing, Corrupt}
    /\ notesFile \in {Missing, Corrupt}
    /\ prefsFile \in {Missing, Corrupt}
    /\ clipsFile = Missing
    /\ rosterText = <<>>
    /\ disk = "ok"
    /\ inflight = <<>>
    /\ client = ClientIdle
    /\ resp = NoResp

NextStore ==
    \/ save_favorites
    \/ get_favorites
    \/ save_notes
    \/ get_notes
    \/ save_preferences
    \/ get_preferences
    \/ save_clip
    \/ get_clips
    \/ DiskChanges

SpecStore == InitStore /\ [][NextStore]_vars

(***************************************************************************)
(* The clips store alone, with the millisecond clock.                      *)
(***************************************************************************)
InitClips ==
    /\ now = 0
    /\ millis = 0
    /\ cacheFile = Missing
    /\ favFile = Missing
    /\ notesFile = Missing
    /\ prefsFile = Missing
    /\ clipsFile \in {Missing, Corrupt}
    /\ rosterText = <<>>
    /\ disk = "ok"
    /\ inflight = <<>>
    /\ client = ClientIdle
    /\ resp = NoResp

NextClips ==
    \/ save_clip
    \/ get_clips
    \/ delete_clip
    \/ TickMs
    \/ DiskChanges

SpecClips == InitClips /\ [][NextClips]_vars

(***************************************************************************)
(* Properties of the stores.                                               *)
(***************************************************************************)
\* C12: a save of favorites, notes or preferences that succeeded, followed
\* directly by the load of the same store, returns exactly the payload that
\* was saved, the empty payload included and with no default merged in; a
\* save_clip(username, data) that succeeded, followed directly by
\* get_clips(username), returns a sequence with a clip of that data.
C12_RoundTrip ==
    [][ /\ (resp.op = "save_favorites" /\ resp.status = 200 /\ resp'.op = "get_favorites")
               => resp'.status = 200 /\ resp'.data = resp.payload
        /\ (resp.op = "save_notes" /\ resp.status = 200 /\ resp'.op = "get_notes")
               => resp'.status = 200 /\ resp'.data = resp.payload
        /\ (resp.op = "save_preferences" /\ resp.status = 200 /\ resp'.op = "get_preferences")
               => resp'.status = 200 /\ resp'.data = resp.payload
        /\ (resp.op = "save_clip" /\ resp.status = 200 /\ resp'.op = "get_clips"
                /\ resp'.payload[1] = resp.payload[1])
               => /\ resp'.status = 200
                  /\ \E i \in 1..Len(resp'.data) : resp'.data[i].data = resp.payload[2] ]_vars

\* C12 witness: the empty preferences object, saved, has been read back as
\* the empty object and not as the default preferences.
C12_Witness ==
    /\ resp.op = "get_preferences" /\ resp.data = <<>>
    /\ prefsFile = JsonFile(<<>>)


\* The clips document a request finds in, or leaves in, the clips file.
ClipsDoc(file) == load_data(file, <<>>)

\* Some clip of the document has the id.
StoresId(clips, clip_id) ==
    \E i \in 1..Len(clips) : \E j \in 1..Len(clips[i].clips) :
        clips[i].clips[j].id = clip_id

\* C14: after a save_clip for username u that succeeded, the clip sequence
\* of u is its previous sequence followed by exactly one new clip
\* {id, timestamp, data} with the data of the request and the id returned,
\* and the clip sequence of every other username is unchanged.
C14_SaveClipAppends ==
    [][ (resp'.op = "save_clip" /\ resp'.status = 200)
        => LET old == ClipsDoc(clipsFile)
               new == ClipsDoc(clipsFile')
               u   == resp'.payload[1]
               was == ClipsOf(old, u)
               is  == ClipsOf(new, u)
           IN /\ clipsFile'.kind = "json"
              /\ Len(is) = Len(was) + 1
              /\ SubSeq(is, 1, Len(was)) = was
              /\ DOMAIN is[Len(is)] = {"id", "timestamp", "data"}
              /\ is[Len(is)].data = resp'.payload[2]
              /\ is[Len(is)].id = resp'.clip_id
              /\ \A v \in ClipUsers \ {u} : ClipsOf(new, v) = ClipsOf(old, v) ]_vars

\* C14 witness: a second clip has been appended for alice after her first,
\* with other data.
C14_Witness ==
    /\ resp.op = "save_clip" /\ resp.status = 200 /\ resp.payload[1] = "alice"
    /\ Len(ClipsOf(ClipsDoc(clipsFile), "alice")) = 2
    /\ ClipsOf(ClipsDoc(clipsFile), "alice")[1].data
           # ClipsOf(ClipsDoc(clipsFile), "alice")[2].data

\* C15: after a delete_clip(id) that succeeded, the clip sequence of every
\* username is its previous sequence without the clips of that id, the
\* others in their previous order; deleting an id no clip has leaves the
\* document as it was and reports success, and so does deleting the same id
\* a second time.
C15_DeleteClipFilters ==
    [][ resp'.op = "delete_clip"
        => LET old == ClipsDoc(clipsFile)
               new == ClipsDoc(clipsFile')
               Other(clip) == clip.id # resp'.clip_id
           IN /\ disk = "ok" => resp'.status = 200
              /\ resp'.status = 200
                   => /\ \A u \in ClipUsers :
                             ClipsOf(new, u) = SelectSeq(ClipsOf(old, u), Other)
                      /\ ~StoresId(new, resp'.clip_id)
                      /\ ~StoresId(old, resp'.clip_id) => new = old
                      /\ (resp.op = "delete_clip" /\ resp.status = 200
                              /\ resp.clip_id = resp'.clip_id) => new = old ]_vars

\* C15 witness: a delete has removed the only clip of bob and has kept the
\* clip of alice, whose id is another.
C15_Witness ==
    /\ resp.op = "delete_clip" /\ resp.status = 200
    /\ HasUser(ClipsDoc(clipsFile), "bob")
    /\ ClipsOf(ClipsDoc(clipsFile), "bob") = <<>>
    /\ Len(ClipsOf(ClipsDoc(clipsFile), "alice")) = 1
    /\ ClipsOf(ClipsDoc(clipsFile), "alice")[1].id # resp.clip_id


\* The save handlers of the replace-all stores and the get handlers.
SaveOps == {"save_favorites", "save_notes", "save_preferences"}
GetOps == {"get_favorites", "get_notes", "get_preferences"}

\* C16: a save_favorites that succeeds leaves exactly the list of the
\* request in the favorites file, whatever the file held, and leaves the
\* notes, preferences, cache and clips files unchanged; save_notes and
\* save_preferences likewise change only their own file, and a save that
\* fails changes no other file either.
C16_SaveReplacesOwnDocument ==
    [][ /\ resp'.op = "save_favorites"
            => /\ resp'.status = 200 => favFile' = JsonFile(resp'.payload)
               /\ UNCHANGED <<notesFile, prefsFile, cacheFile, clipsFile>>
        /\ resp'.op = "save_notes"
            => /\ resp'.status = 200 => notesFile' = JsonFile(resp'.payload)
               /\ UNCHANGED <<favFile, prefsFile, cacheFile, clipsFile>>
        /\ resp'.op = "save_preferences"
            => /\ resp'.status = 200 => prefsFile' = JsonFile(resp'.payload)
               /\ UNCHANGED <<favFile, notesFile, cacheFile, clipsFile>> ]_vars

\* C16 witness: the empty list has been saved as the favorites while the
\* notes, the preferences and the clips hold data.
C16_Witness ==
    /\ resp.op = "save_favorites" /\ resp.status = 200 /\ resp.payload = <<>>
    /\ favFile = JsonFile(<<>>)
    /\ notesFile.kind = "json" /\ notesFile.doc # <<>>
    /\ prefsFile.kind = "json" /\ prefsFile.doc # <<>>
    /\ clipsFile.kind = "json" /\ clipsFile.doc # <<>>

\* C17 as claimed: whatever the state of the data files and of the disk,
\* the get and save handlers of favorites, notes and preferences answer
\* without an error, and a get on a file that is missing or does not parse
\* answers with the empty document.
C17_PersistenceFailuresSwallowed ==
    /\ resp.op \in SaveOps \cup GetOps => resp.status = 200
    /\ (resp.op = "get_favorites" /\ favFile.kind # "json") => resp.data = <<>>
    /\ (resp.op = "get_notes" /\ notesFile.kind # "json") => resp.data = <<>>
    /\ (resp.op = "get_preferences" /\ prefsFile.kind # "json") => resp.data = <<>>

\* C17 as amended: the get handlers never answer with an error, and on a
\* file that is missing or does not parse they answer with the default of
\* their load_data call: the empty list for favorites, the empty object for
\* notes, the built-in default preferences for preferences.  The save
\* handlers answer 200 exactly when save_data succeeded: a write that fails
\* is answered with a server error.
C17_ReadFailuresYieldDefaults ==
    /\ resp.op \in GetOps => resp.status = 200
    /\ (resp.op = "get_favorites" /\ favFile.kind # "json") => resp.data = <<>>
    /\ (resp.op = "get_notes" /\ notesFile.kind # "json") => resp.data = <<>>
    /\ (resp.op = "get_preferences" /\ prefsFile.kind # "json")
           => resp.data = DefaultPreferences
    /\ resp.op \in SaveOps => (resp.status = 200 <=> disk = "ok")

\* C17 witness: save_preferences has answered a server error on a full
\* disk, leaving a file that does not parse.
C17_Witness ==
    /\ resp.op = "save_preferences" /\ resp.status = 500
    /\ disk = "full" /\ prefsFile.kind = "corrupt"


(***************************************************************************)
(* Properties of the cache file over the life of the data directory.       *)
(***************************************************************************)
\* The file holds an envelope {rooms, expires}.
HoldsEnvelope(file) == file.kind = "json" /\ file.doc.nonempty

\* What the initialisation block may do to a file: create it with its empty
\* document when it does not exist, and nothing else.
InitialisedOnlyIfMissing(before, after, empty) ==
    IF before.kind = "missing" THEN after = JsonFile(empty) ELSE after = before

\* C18: once the cache file holds an envelope with rooms, every step of a
\* request or of a process start-up leaves an envelope in it, never a
\* missing file or the empty document; and a start-up (a step that answers
\* no request while the clock and the roster stay) changes a data file only
\* when that file does not exist, creating it with its empty document.
C18_CacheNeverDeleted ==
    [][ /\ HoldsEnvelope(cacheFile) => HoldsEnvelope(cacheFile')
        /\ (resp' = NoResp /\ now' = now /\ rosterText' = rosterText)
               => /\ InitialisedOnlyIfMissing(cacheFile, cacheFile', EmptyDict)
                  /\ InitialisedOnlyIfMissing(favFile, favFile', <<>>)
                  /\ InitialisedOnlyIfMissing(notesFile, notesFile', <<>>)
                  /\ InitialisedOnlyIfMissing(prefsFile, prefsFile', <<>>)
                  /\ InitialisedOnlyIfMissing(clipsFile, clipsFile', <<>>) ]_vars

\* C18 witness: a data directory whose notes file a start-up has created,
\* with an envelope with rooms, since expired, still in the cache file.
C18_Witness ==
    /\ resp = NoResp
    /\ notesFile = JsonFile(<<>>)
    /\ HoldsEnvelope(cacheFile) /\ cacheFile.doc.rooms # <<>>
    /\ cacheFile.doc.expires <= now

\* C19: the rooms of the envelope in the cache file are rooms as the
\* upstream answers them, in the order of the answer that was saved: no
\* flag, gender_display, uptime or is_new of a page is in the file, an
\* envelope is written only with the rooms its own step fetched, and no
\* step of index, which sorts and extends the rooms, changes the file.
C19_DerivedFieldsNotPersisted ==
    [][ /\ HoldsEnvelope(cacheFile') => cacheFile'.doc.rooms \in RoomLists
        /\ (cacheFile' # cacheFile /\ HoldsEnvelope(cacheFile'))
               => resp'.op = "refresh" /\ cacheFile'.doc.rooms = resp'.rooms
        /\ resp'.op = "index" => cacheFile' = cacheFile ]_vars

\* C19 witness: index has rendered, sorted and extended, the rooms of an
\* envelope that holds them in another order.
C19_Witness ==
    /\ resp.op = "index" /\ resp.branch = "hit" /\ Len(resp.rooms) = MaxRooms
    /\ HoldsEnvelope(cacheFile)
    /\ PageBaseRooms(resp) # cacheFile.doc.rooms
    /\ SameElements(PageBaseRooms(resp), cacheFile.doc.rooms)


(***************************************************************************)
(* country_to_flag as index calls it: the page of a cached room whose      *)
(* country is any text of up to MaxCountry characters.                     *)
(***************************************************************************)
CountryAlphabet == {"u", "S", "g", "1"}
CountryCodes == UNION {[1..n -> CountryAlphabet] : n \in 0..MaxCountry}

InitFlag ==
    /\ now = 0
    /\ \E c \in CountryCodes :
           cacheFile = JsonFile(Envelope(
               <<Room("alice", 5, <<"f">>, c, -1, <<>>, FALSE, 0)>>, CACHE_TTL))
    /\ favFile = Missing
    /\ rosterText = <<>>
    /\ resp = NoResp
    /\ StoresIdle

NextFlag == index

SpecFlag == InitFlag /\ [][NextFlag]_vars

IsLetter(c) == c \in Range(LowerLetters) \cup Range(UpperLetters)

\* The regional-indicator code point of a letter of either case.
RegionalIndicator(c) ==
    LET k == IF c \in Range(UpperLetters) THEN IndexOf(c, UpperLetters)
             ELSE IndexOf(c, LowerLetters)
    IN ORD_UPPER_A + (k - 1) + FLAG_OFFSET

\* C20 as claimed: the flag of a room is the two regional-indicator code
\* points of its country when that is two letters of either case, and is
\* the empty string for the empty country and for every other country.
C20_FlagOfTwoLetterCode ==
    (resp.op = "index" /\ resp.body = "page")
        => \A i \in 1..Len(resp.rooms) :
               LET c == resp.rooms[i].base.country IN
               IF Len(c) = 2 /\ IsLetter(c[1]) /\ IsLetter(c[2])
               THEN resp.rooms[i].flag = <<RegionalIndicator(c[1]), RegionalIndicator(c[2])>>
               ELSE resp.rooms[i].flag = <<>>

\* C20 as amended: the flag is the empty string exactly for the countries
\* whose length is not 2, the empty one included; for a country of two
\* characters it is two code points, in order, each the code point of the
\* upper-cased character plus 127397: the regional indicator of a letter
\* of either case, and the code point of the character itself plus 127397
\* for a character that is not a letter.
C20_FlagOfTwoCharacters ==
    (resp.op = "index" /\ resp.body = "page")
        => \A i \in 1..Len(resp.rooms) :
               LET c == resp.rooms[i].base.country
                   Point(x) == IF IsLetter(x) THEN RegionalIndicator(x)
                               ELSE Ord(x) + FLAG_OFFSET
               IN IF Len(c) = 2
                  THEN resp.rooms[i].flag = <<Point(c[1]), Point(c[2])>>
                  ELSE resp.rooms[i].flag = <<>>

\* C20 witness: the page of a room whose country is "uS", with the flag of
\* "US".
C20_Witness ==
    /\ resp.op = "index" /\ resp.body = "page" /\ Len(resp.rooms) = 1
    /\ resp.rooms[1].base.country = <<"u", "S">>
    /\ resp.rooms[1].flag = <<ORD_UPPER_A + 20 + FLAG_OFFSET, ORD_UPPER_A + 18 + FLAG_OFFSET>>


(***************************************************************************)
(* Two requests at once.  The server handles each request in a thread of   *)
(* its own and the handlers take no lock, so the steps of two handlers     *)
(* interleave.  save_data is not one step: open(file_path, 'w') truncates  *)
(* the file, json.dump fills the buffer of the file object, and leaving    *)
(* the with block writes that buffer at offset 0 of the writer's own       *)
(* descriptor.  A text written over a longer text that another writer has  *)
(* written since the truncation leaves the tail of the longer text behind. *)
(* inflight holds the two requests: their position, the locals of the      *)
(* handler, and the order in which their steps were taken.                 *)
(***************************************************************************)
\* len(str(int(time.time() * 1000))) and len(datetime.now().isoformat())
ID_DIGITS == 13
ISO_CHARS == 26

\* The characters of the separators ", " between n items.
Separators(n) == IF n > 1 THEN 2 * (n - 1) ELSE 0

\* The length of json.dump's text of a list of strings.
ListTextLen(doc) ==
    2 + SeqSum([i \in 1..Len(doc) |-> Len(doc[i]) + 2]) + Separators(Len(doc))

\* The length of json.dump's text of an object of <<key, value text>> pairs.
ObjectTextLen(doc) ==
    2 + SeqSum([i \in 1..Len(doc) |-> Len(doc[i][1]) + 2 + 2 + Len(doc[i][2])])
      + Separators(Len(doc))

\* {"id": "...", "timestamp": "...", "data": "..."}
ClipTextLen(clip) ==
    Len("{\"id\": \"") + ID_DIGITS + Len("\", \"timestamp\": \"") + ISO_CHARS
        + Len("\", \"data\": \"") + Len(clip.data) + Len("\"}")

\* The length of json.dump's text of the clips document.
ClipsTextLen(doc) ==
    LET ListLen(l) == 2 + SeqSum([j \in 1..Len(l) |-> ClipTextLen(l[j])])
                        + Separators(Len(l))
    IN 2 + SeqSum([i \in 1..Len(doc) |->
                      Len(doc[i].user) + 2 + 2 + ListLen(doc[i].clips)])
         + Separators(Len(doc))

\* The length of the text save_data writes for the document of a handler.
TextLen(op, doc) ==
    CASE op = "save_favorites" -> ListTextLen(doc)
      [] op = "save_clip" -> ClipsTextLen(doc)
      [] OTHER -> ObjectTextLen(doc)

\* The file a handler saves to.
FileOf(op) ==
    CASE op = "save_favorites" -> favFile
      [] op = "save_notes" -> notesFile
      [] op = "save_preferences" -> prefsFile
      [] op = "save_clip" -> clipsFile

\* The file of the handler becomes f and every other file stays.
FileBecomes(op, f) ==
    /\ favFile' = IF op = "save_favorites" THEN f ELSE favFile
    /\ notesFile' = IF op = "save_notes" THEN f ELSE notesFile
    /\ prefsFile' = IF op = "save_preferences" THEN f ELSE prefsFile
    /\ clipsFile' = IF op = "save_clip" THEN f ELSE clipsFile

\* open(file_path, 'w'): the file exists and is empty, which json.load
\* rejects.
Truncated == Corrupt

\* Mutant: the text replacing the file whatever the file held.
FlushedWhole(op, file, doc) == save_data(doc)

\* The file after the buffer of a writer is written at offset 0.  The file
\* is empty since the writer's own open, or holds the whole text of the
\* other writer: the text of doc covers it, or leaves its tail.
Flushed(op, file, doc) ==
    IF file.kind = "json" /\ TextLen(op, file.doc) > TextLen(op, doc)
    THEN Corrupt
    ELSE save_data(doc)

\* A request as it is received.  payload is the document of a replace-all
\* request and <<username, clipData>> of a save_clip; loaded and doc are
\* the locals of the handler; at is the order of its steps (0: not taken).
NewRequest(op, payload) ==
    [op |-> op, payload |-> payload, pc |-> "received",
     loaded |-> <<>>, doc |-> IF op = "save_clip" THEN <<>> ELSE payload,
     at |-> [load |-> 0, open |-> 0, flush |-> 0]]

\* The requests that race.
NumRaceRequests == 9
RaceRequest(k) ==
    CASE k = 1 -> NewRequest("save_favorites", <<>>)
      [] k = 2 -> NewRequest("save_favorites", <<"alice">>)
      [] k = 3 -> NewRequest("save_notes", <<>>)
      [] k = 4 -> NewRequest("save_notes", << <<"alice", "\"hi\"">> >>)
      [] k = 5 -> NewRequest("save_preferences", <<>>)
      [] k = 6 -> NewRequest("save_preferences", << <<"dark_mode", "true">> >>)
      [] k = 7 -> NewRequest("save_clip", <<"alice", "d1">>)
      [] k = 8 -> NewRequest("save_clip", <<"alice", "d2">>)
      [] k = 9 -> NewRequest("save_clip", <<"bob", "d1">>)

Slots == {1, 2}

\* The steps taken so far, and the place of the next one.
StepsTaken ==
    Cardinality({<<i, s>> \in Slots \X {"load", "open", "flush"} : inflight[i].at[s] > 0})
NextStep == StepsTaken + 1

\* clips = load_data(CLIPS_FILE, {}) and the append, in request i.
LoadClips(i) ==
    LET r == inflight[i]
        clips == load_data(clipsFile, <<>>)
        clip == [id |-> ClockMs, timestamp |-> ClockMs, data |-> r.payload[2]]
    IN /\ r.op = "save_clip" /\ r.pc = "received"
       /\ inflight' = [inflight EXCEPT ![i] =
              [r EXCEPT !.pc = "loaded", !.loaded = clips,
                        !.doc = AppendClip(clips, r.payload[1], clip),
                        !.at.load = NextStep]]
       /\ UNCHANGED <<now, cacheFile, favFile, rosterText, resp,
                      millis, notesFile, prefsFile, clipsFile, disk, client>>

\* save_data, first half: open(file_path, 'w') in request i.
OpenForWrite(i) ==
    LET r == inflight[i] IN
    /\ r.pc = (IF r.op = "save_clip" THEN "loaded" ELSE "received")
    /\ FileBecomes(r.op, Truncated)
    /\ inflight' = [inflight EXCEPT ![i] =
           [r EXCEPT !.pc = "opened", !.at.open = NextStep]]
    /\ UNCHANGED <<now, cacheFile, rosterText, resp, millis, disk, client>>

\* save_data, second half, and the answer of request i.
FlushAndAnswer(i) ==
    LET r == inflight[i] IN
    /\ r.pc = "opened"
    /\ FileBecomes(r.op, Flushed(r.op, FileOf(r.op), r.doc))
    /\ inflight' = [inflight EXCEPT ![i] =
           [r EXCEPT !.pc = "done", !.at.flush = NextStep]]
    /\ resp' = IF r.op = "save_clip"
               THEN ClipResponse("save_clip", r.payload[1], r.payload[2], ClockMs, "ok")
               ELSE SaveResponse(r.op, r.payload, "ok")
    /\ UNCHANGED <<now, cacheFile, rosterText, millis, disk, client>>

\* A clip stored before the race.
StoredClip == [id |-> 0, timestamp |-> 0, data |-> "d2"]

InitRace ==
    /\ now = 0
    /\ millis = 1
    /\ cacheFile = Missing
    /\ favFile \in {Missing, JsonFile(<<"alice">>)}
    /\ notesFile = JsonFile(<<>>)
    /\ prefsFile = JsonFile(<<>>)
    /\ clipsFile \in {Missing, JsonFile(<<[user |-> "alice", clips |-> <<StoredClip>>]>>)}
    /\ rosterText = <<>>
    /\ disk = "ok"
    /\ \E j, k \in 1..NumRaceRequests : inflight = <<RaceRequest(j), RaceRequest(k)>>
    /\ client = ClientIdle
    /\ resp = NoResp

NextRace ==
    \E i \in Slots :
        \/ LoadClips(i)
        \/ OpenForWrite(i)
        \/ FlushAndAnswer(i)

SpecRace == InitRace /\ [][NextRace]_vars


\* Both requests have answered.
BothDone == \A i \in Slots : inflight[i].pc = "done"

\* The request whose text was written last, and the other one.
LastWriter == CHOOSE i \in Slots : \A j \in Slots : inflight[j].at.flush <= inflight[i].at.flush
EarlierWriter == CHOOSE i \in Slots : i # LastWriter

\* The two save_data calls overlap: the earlier writer wrote its text after
\* the last writer had opened the file.
WritesOverlap == inflight[EarlierWriter].at.flush > inflight[LastWriter].at.open

\* Both requests have loaded the document before either opened the file.
BothLoadedFirst ==
    \A i, j \in Slots : inflight[i].at.load > 0 /\ inflight[i].at.load < inflight[j].at.open

InitGender ==
    /\ now = 0
    /\ \E g \in GenderCodes :
           cacheFile = JsonFile(Envelope(
               <<Room("alice", 5, g, <<>>, -1, <<>>, FALSE, 0)>>, CACHE_TTL))
    /\ favFile = Missing
    /\ rosterText = <<>>
    /\ resp = NoResp
    /\ StoresIdle

NextGender == index

SpecGender == InitGender /\ [][NextGender]_vars

\* The codes of the fixed table.
TableCodes == {<<"f">>, <<"m">>, <<"t">>, <<"c">>}

\* C21 as claimed: the gender_display of a room is Female, Male, Trans or
\* Couple when its gender is exactly f, m, t or c, and is the gender
\* capitalized for every other gender.
C21_GenderDisplayTable ==
    (resp.op = "index" /\ resp.body = "page")
        => \A i \in 1..Len(resp.rooms) :
               LET g == resp.rooms[i].base.gender IN
               resp.rooms[i].gender_display =
                   IF g \in TableCodes THEN GenderLabel(g) ELSE StrCapitalize(g)

\* C21 as amended: the table is looked up with the gender in lower case,
\* so f, m, t, c and F, M, T, C give Female, Male, Trans, Couple; every
\* other gender gives itself with its first character in upper case and
\* the rest in lower case.
C21_GenderDisplayFoldsCase ==
    (resp.op = "index" /\ resp.body = "page")
        => \A i \in 1..Len(resp.rooms) :
               LET g == resp.rooms[i].base.gender
                   k == [j \in 1..Len(g) |-> CharLower(g[j])]
               IN resp.rooms[i].gender_display =
                      IF k \in TableCodes THEN GenderLabel(k)
                      ELSE [j \in 1..Len(g) |->
                               IF j = 1 THEN CharUpper(g[j]) ELSE CharLower(g[j])]

\* C21 witness: the page of a room whose gender is "F", shown as Female.
C21_Witness ==
    /\ resp.op = "index" /\ resp.body = "page" /\ Len(resp.rooms) = 1
    /\ resp.rooms[1].base.gender = <<"F">>
    /\ resp.rooms[1].gender_display = Female


(***************************************************************************)
(* format_duration as the page calls it: a cached room that started at     *)
(* second 0, rendered at any second up to MaxSeconds.                      *)
(***************************************************************************)
InitDuration ==
    /\ now \in 0..MaxSeconds
    /\ cacheFile = JsonFile(Envelope(
           <<Room("alice", 5, <<"f">>, <<>>, -1, <<>>, TRUE, 0)>>, now + CACHE_TTL))
    /\ favFile = Missing
    /\ rosterText = <<>>
    /\ resp = NoResp
    /\ StoresIdle

NextDuration == index

SpecDuration == InitDuration /\ [][NextDuration]_vars

\* The number a sequence of digits writes.
RECURSIVE NumeralValue(_)
NumeralValue(d) ==
    IF d = <<>> THEN 0
    ELSE 10 * NumeralValue(SubSeq(d, 1, Len(d) - 1)) + (IndexOf(d[Len(d)], Digits) - 1)

\* d is the decimal numeral of n: digits only, no leading zero.
IsNumeral(d, n) ==
    /\ Len(d) >= 1
    /\ \A i \in 1..Len(d) : d[i] \in Range(Digits)
    /\ Len(d) > 1 => d[1] # "0"
    /\ NumeralValue(d) = n

\* t is "{h}h {m}m".
IsHoursMinutes(t, h, m) ==
    \E k \in 2..(Len(t) - 3) :
        /\ t[k] = "h" /\ t[k + 1] = " " /\ t[Len(t)] = "m"
        /\ IsNumeral(SubSeq(t, 1, k - 1), h)
        /\ IsNumeral(SubSeq(t, k + 2, Len(t) - 1), m)

\* t is "{m}m".
IsMinutes(t, m) ==
    /\ Len(t) >= 2 /\ t[Len(t)] = "m"
    /\ IsNumeral(SubSeq(t, 1, Len(t) - 1), m)

\* C22: the duration shown for an uptime of s >= 0 seconds is "{h}h {m}m"
\* when h = s div 3600 is at least 1 and "{m}m" otherwise, with
\* m = (s mod 3600) div 60 in 0..59; 0 and 59 give "0m", 60 gives "1m",
\* 3600 gives "1h 0m" and 3661 gives "1h 1m".
C22_DurationFormat ==
    (resp.op = "index" /\ resp.body = "page")
        => \A i \in 1..Len(resp.rooms) :
               LET s == resp.rooms[i].uptime
                   t == resp.rooms[i].duration
                   h == s \div 3600
                   m == (s % 3600) \div 60
               IN s >= 0
                    => /\ m \in 0..59
                       /\ IF h >= 1 THEN IsHoursMinutes(t, h, m) ELSE IsMinutes(t, m)
                       /\ s \in {0, 59} => t = <<"0", "m">>
                       /\ s = 60 => t = <<"1", "m">>
                       /\ s = 3600 => t = <<"1", "h", " ", "0", "m">>
                       /\ s = 3661 => t = <<"1", "h", " ", "1", "m">>

\* C22 witness: the page of a room up for 3661 seconds, shown as "1h 1m".
C22_Witness ==
    /\ resp.op = "index" /\ resp.body = "page" /\ Len(resp.rooms) = 1
    /\ resp.rooms[1].uptime = 3661
    /\ resp.rooms[1].duration = <<"1", "h", " ", "1", "m">>


(***************************************************************************)
(* The uptime index computes.  A room of the upstream room list carries    *)
(* its start as start_timestamp (every room of the answer recorded in      *)
(* index does) and has no start_time; the rooms here carry                 *)
(* start_timestamp and, or not, a start_time of the same value.            *)
(***************************************************************************)
StartedRoom(start, hasStartTime) ==
    Room("alice", 5, <<"f">>, <<>>, -1, <<>>, hasStartTime, start)
        @@ [start_timestamp |-> start]

InitUptime ==
    /\ now \in 0..MaxStart
    /\ millis \in 0..MaxMillis
    /\ \E start \in 0..MaxStart, hasStartTime \in BOOLEAN :
           cacheFile = JsonFile(Envelope(<<StartedRoom(start, hasStartTime)>>,
                                         now + CACHE_TTL))
    /\ favFile = Missing
    /\ notesFile = Missing
    /\ prefsFile = Missing
    /\ clipsFile = Missing
    /\ rosterText = <<>>
    /\ disk = "ok"
    /\ inflight = <<>>
    /\ client = ClientIdle
    /\ resp = NoResp

NextUptime == index

SpecUptime == InitUptime /\ [][NextUptime]_vars

\* C23: the uptime of every room of the page is the time of the render
\* minus the start timestamp of the room, floored to an integer, without
\* clamping, also for a start later than the render.
C23_UptimeIsFlooredDifference ==
    (resp.op = "index" /\ resp.body = "page")
        => \A i \in 1..Len(resp.rooms) :
               resp.rooms[i].uptime =
                   (ClockMs - resp.rooms[i].base.start_timestamp * 1000) \div 1000

\* C24: the is_new of every room of the page is true exactly when the
\* uptime computed for the room is less than 900 seconds: true at 899,
\* false at 900.
C24_IsNewBelowThreshold ==
    (resp.op = "index" /\ resp.body = "page")
        => \A i \in 1..Len(resp.rooms) :
               /\ resp.rooms[i].is_new <=> resp.rooms[i].uptime < 900
               /\ resp.rooms[i].uptime = 899 => resp.rooms[i].is_new
               /\ resp.rooms[i].uptime = 900 => ~resp.rooms[i].is_new

\* C24 witness: the page of a room up for exactly 900 seconds, not new.
C24_Witness ==
    /\ resp.op = "index" /\ resp.body = "page" /\ Len(resp.rooms) = 1
    /\ resp.rooms[1].uptime = 900
    /\ ~resp.rooms[1].is_new


\* The clips of the document as the set of their places <<user, position>>.
ClipPlaces(clips) ==
    {<<i, j>> \in (1..Len(clips)) \X (1..MaxClips + 1) : j <= Len(clips[i].clips)}

\* C25: a stored clip disappears only through delete_clip with its id: at
\* every step of a sequence of save_clip, delete_clip and get_clips
\* requests, every clip of the store before the step is a clip of the same
\* username after it, unless the step is a delete_clip of its id.
C25_ClipsOnlyDeletedById ==
    [][ \A p \in ClipPlaces(ClipsDoc(clipsFile)) :
            LET entry == ClipsDoc(clipsFile)[p[1]]
                clip  == entry.clips[p[2]]
                after == ClipsOf(ClipsDoc(clipsFile'), entry.user)
            IN \/ \E j \in 1..Len(after) : after[j] = clip
               \/ resp'.op = "delete_clip" /\ resp'.clip_id = clip.id ]_vars

\* C26: no two clips of the store, of the same or of different usernames,
\* have the same id.
C26_ClipIdsUnique ==
    LET clips == ClipsDoc(clipsFile) IN
    \A p, q \in ClipPlaces(clips) :
        p # q => clips[p[1]].clips[p[2]].id # clips[q[1]].clips[q[2]].id


(***************************************************************************)
(* The count of room_users on roster lines whose leading count field is    *)
(* any of a few digits, followed by up to MaxRecords elements, well-formed *)
(* or not.                                                                 *)
(***************************************************************************)
CountFields == {<<"0">>, <<"1">>, <<"2">>, <<"7">>}
RosterElements ==
    { <<"a", "|", "x", "|", "m">>,
      <<"b", "|", "y", "|", "f", "|", "0">>,
      <<"a", "|", "x">> }

RECURSIVE JoinElements(_)
JoinElements(elements) ==
    IF elements = <<>> THEN <<>>
    ELSE <<",">> \o Head(elements) \o JoinElements(Tail(elements))

CountedLines ==
    {c \o JoinElements(l) :
         c \in CountFields,
         l \in UNION {[1..n -> RosterElements] : n \in 0..MaxRecords}}

InitRosterCount ==
    /\ now = 0
    /\ cacheFile = Missing
    /\ favFile = Missing
    /\ rosterText \in CountedLines
    /\ resp = NoResp
    /\ StoresIdle

NextRosterCount == room_users

SpecRosterCount == InitRosterCount /\ [][NextRosterCount]_vars

\* C27: in every successful room_users response count is the number of
\* records of users, which is the number of well-formed elements after the
\* first, whatever the leading count field of the line says.
C27_CountIsNumberOfUsers ==
    (resp.op = "room_users" /\ resp.status = 200)
        => /\ resp.body = "users"
           /\ resp.count = Len(resp.users)
           /\ resp.count = Cardinality(RecordElements(resp.raw))

\* C27 witness: a line that announces 7 users and has one well-formed
\* record and one malformed element, answered with count 1.
C27_Witness ==
    /\ resp.op = "room_users" /\ resp.status = 200
    /\ Piece(resp.raw, ",", 1) = <<"7">>
    /\ NumPieces(resp.raw, ",") = 3
    /\ resp.count = 1 /\ Len(resp.users) = 1


(***************************************************************************)
(* Recording clips on the page: the detail box, the recorder, its          *)
(* countdown and the upload to /save_clip.                                 *)
(***************************************************************************)
InitRecording ==
    /\ now = 0
    /\ millis = 0
    /\ cacheFile = Missing
    /\ favFile = Missing
    /\ notesFile = Missing
    /\ prefsFile = Missing
    /\ clipsFile = Missing
    /\ rosterText = <<>>
    /\ disk = "ok"
    /\ inflight = <<>>
    /\ client = ClientIdle
    /\ resp = NoResp

NextRecording ==
    \/ loadDetails
    \/ closeDetails
    \/ ClickRecord
    \/ CaptureGranted
    \/ CaptureDenied
    \/ CountdownTick
    \/ TracksEnded
    \/ OnStop
    \/ OnLoadEnd
    \/ ServeUpload

SpecRecording == InitRecording /\ [][NextRecording]_vars

\* C28: every clip is uploaded, and saved, under the username of the room
\* that was open when its recording was started, whatever happened between
\* the start, the stop and the upload.
C28_ClipSavedUnderRecordedRoom ==
    \A i \in 1..Len(inflight) : inflight[i].payload[1] = inflight[i].room

\* The page shows no recording: the countdown interval is cleared, the
\* record button is enabled and the status line is hidden.
RecordingIdle ==
    ~client.interval /\ ~client.buttonDisabled /\ ~client.statusShown

\* Nothing is left to happen for the recordings started: the recorder is
\* not recording, its stop event and the reading of its blob are done, and
\* the countdown, if it still runs, is at zero or below.
RecordingOver ==
    /\ client.recorder = "inactive"
    /\ client.capture = "none" /\ ~client.stopPending /\ client.reading = <<>>
    /\ client.interval => client.recordingTimeLeft <= 0

\* C29: once a recording is over, however it ended (the countdown, the
\* closing of the detail box, or the recorder stopping by itself), the page
\* is idle again and one upload was made for each recording.
C29_RecordingReturnsToIdle ==
    RecordingOver => /\ RecordingIdle
                     /\ client.uploads = client.recordings


(***************************************************************************)
(* The polls of the page, notifications allowed: /api/refresh every        *)
(* minute with alice and bob as favorites, and what the page notifies.     *)
(***************************************************************************)
InitNotify ==
    /\ now = 0
    /\ millis = 0
    /\ cacheFile = Missing
    /\ favFile = JsonFile(<<"alice", "bob">>)
    /\ notesFile = Missing
    /\ prefsFile = Missing
    /\ clipsFile = Missing
    /\ rosterText = <<>>
    /\ disk = "ok"
    /\ inflight = <<>>
    /\ client = [ClientIdle EXCEPT !.permission = "granted"]
    /\ resp = NoResp

NextNotify ==
    \/ PollTimer
    \/ refresh_data
    \/ HandleRefresh

SpecNotify == InitNotify /\ [][NextNotify]_vars

\* C30: the favorites a poll raises an "is now online" notification for
\* are exactly those online in this poll and not online in the poll
\* handled before it (none was, before the first poll): one that stays
\* online is not notified again, one that was offline in between is.  A
\* poll that fails notifies nobody.
C30_NotifiedOnlyWhenNewlyOnline ==
    [][ (client.polling /\ ~client'.polling)
        => IF resp.status = 200
           THEN client'.notified
                    = Range(resp.online_favorites) \ Range(client.polled)
           ELSE client'.notified = {} ]_vars

\* C30 witness: alice, online in the poll before, is online again and is
\* not notified, while bob is newly online and is.
C30_Witness ==
    /\ ~client.polling /\ resp.op = "refresh" /\ resp.status = 200
    /\ client.notified = {"bob"}
    /\ Range(client.polled) = {"alice", "bob"}


====
